---- MODULE Spec2Model ----
(***************************************************************************)
(* Model of the cinema ticket purchasing service:                          *)
(*   - TicketTypeRequest (lib/TicketTypeRequest.js): the value object and  *)
(*     its validating constructor;                                         *)
(*   - TicketService (TicketService.js): purchaseTickets with its private  *)
(*     helpers, and the two external collaborators it calls.               *)
(* A purchaseTickets call is split at the collaborator calls, where the    *)
(* environment chooses the collaborator's response (return or throw).      *)
(***************************************************************************)
EXTENDS Integers, Sequences, FiniteSets, TLC

\* ---------------------------------------------------------------- bounds
\* longest ticketTypeRequests array the caller builds
MaxLen == 2
\* number of purchaseTickets calls made on one service instance
MaxCalls == 2

\* ---------------------------------------------------------------- inputs
\* integer quantities the caller may pass to the constructor
Quantities == {-1, 0, 1, 2, 19, 20, 21}
\* account ids the caller may pass
AccountIds == {-1, 0, 1, 123}
\* type strings the caller may pass
TypeInputs == {"ADULT", "CHILD", "INFANT", "UNKNOWN_TYPE"}

\* A JavaScript value passed as noOfTickets: a number num/den (den = 0 is
\* NaN), a string, or undefined.
JSNumber(n, d) == [t |-> "number", num |-> n, den |-> d]
JSString(n) == [t |-> "string", num |-> n, den |-> 1]
JSUndefined == [t |-> "undefined", num |-> 0, den |-> 1]
RawValues ==
  {JSNumber(n, 1) : n \in Quantities}
    \cup {JSNumber(1, 2), JSNumber(0, 0), JSString(2), JSUndefined}

\* ---------------------------------------------------------------- state
VARIABLES
  ticketPrices,           \* this.ticketPrices
  maxTicketsPerPurchase,  \* this.maxTicketsPerPurchase
  ticketTypeRequests,     \* the array of constructed TicketTypeRequest objects
  lastNew,                \* the latest `new TicketTypeRequest(type, n)` and its outcome
  pc,                     \* position of the current purchaseTickets call
  accountId,              \* argument of the current call
  totalAmount,            \* local const totalAmount
  numSeatsToReserve,      \* local let numSeatsToReserve
  calls,                  \* collaborator calls made by the current call, in order
  payOutcome,             \* what makePayment did: none / true / false / threw
  resOutcome,             \* what reserveSeats did: none / returned / threw
  result,                 \* value returned by purchaseTickets
  escaped,                \* an exception left purchaseTickets
  callsDone               \* completed purchaseTickets calls on this instance

vars == <<ticketPrices, maxTicketsPerPurchase, ticketTypeRequests, lastNew, pc,
          accountId, totalAmount, numSeatsToReserve, calls, payOutcome,
          resOutcome, result, escaped, callsDone>>

config == <<ticketPrices, maxTicketsPerPurchase>>
callLocals == <<accountId, totalAmount, numSeatsToReserve, calls, payOutcome,
                resOutcome, result, escaped>>

\* ------------------------------------------------------ TicketTypeRequest
\* #Type
Type == {"ADULT", "CHILD", "INFANT"}

\* Number.isInteger(v)
IsInteger(v) == v.t = "number" /\ v.den # 0 /\ v.num % v.den = 0

\* the number a JS integer value denotes
NumberOf(v) == v.num \div v.den

\* the constructor's two guards; TRUE when it throws TypeError
ConstructorThrows(type, noOfTickets) ==
  \/ type \notin Type
  \/ ~IsInteger(noOfTickets)

getNoOfTickets(request) == request.noOfTickets
getTicketType(request) == request.type

NoAttempt == [type |-> "", raw |-> JSUndefined, outcome |-> "none"]

\* new TicketTypeRequest(type, noOfTickets), pushed on the caller's array
TicketTypeRequest(type, noOfTickets) ==
  /\ pc = "idle"
  /\ Len(ticketTypeRequests) < MaxLen
  /\ IF ConstructorThrows(type, noOfTickets)
       THEN /\ lastNew' = [type |-> type, raw |-> noOfTickets, outcome |-> "TypeError"]
            /\ UNCHANGED ticketTypeRequests
       ELSE /\ lastNew' = [type |-> type, raw |-> noOfTickets, outcome |-> "ok"]
            /\ ticketTypeRequests' =
                 Append(ticketTypeRequests,
                        [type |-> type, noOfTickets |-> NumberOf(noOfTickets)])
  /\ UNCHANGED <<config, pc, callLocals, callsDone>>

\* ---------------------------------------------------------- TicketService
\* constructor
InitialTicketPrices == [INFANT |-> 0, CHILD |-> 10, ADULT |-> 20]
InitialMaxTicketsPerPurchase == 20

RECURSIVE totalQuantity(_)
totalQuantity(requests) ==
  IF requests = <<>> THEN 0
  ELSE totalQuantity(SubSeq(requests, 1, Len(requests) - 1))
         + getNoOfTickets(requests[Len(requests)])

\* variant: infants are given a seat
RECURSIVE calculateNumSeatsToReserve_countsInfants(_)
calculateNumSeatsToReserve_countsInfants(requests) ==
  IF requests = <<>> THEN 0
  ELSE calculateNumSeatsToReserve_countsInfants(SubSeq(requests, 1, Len(requests) - 1))
         + getNoOfTickets(requests[Len(requests)])

RECURSIVE calculateNumSeatsToReserve(_)
calculateNumSeatsToReserve(requests) ==
  IF requests = <<>> THEN 0
  ELSE calculateNumSeatsToReserve(SubSeq(requests, 1, Len(requests) - 1))
         + (IF getTicketType(requests[Len(requests)]) # "INFANT"
              THEN getNoOfTickets(requests[Len(requests)]) ELSE 0)

hasAdultTicket(requests) ==
  \E i \in 1..Len(requests) : getTicketType(requests[i]) = "ADULT"

hasChildOrInfantWithoutAdult(requests) ==
  \E i \in 1..Len(requests) :
    /\ getTicketType(requests[i]) = "CHILD" \/ getTicketType(requests[i]) = "INFANT"
    /\ ~hasAdultTicket(requests)

\* variant: infants are left out of the quantity that is capped
isValidPurchaseRequest_seatsOnly(requests, maxTickets) ==
  IF calculateNumSeatsToReserve(requests) > maxTickets THEN FALSE
  ELSE hasAdultTicket(requests) /\ ~hasChildOrInfantWithoutAdult(requests)

\* variant: the cap is exclusive
isValidPurchaseRequest_exclusive(requests, maxTickets) ==
  IF totalQuantity(requests) >= maxTickets THEN FALSE
  ELSE hasAdultTicket(requests) /\ ~hasChildOrInfantWithoutAdult(requests)

isValidPurchaseRequest(requests, maxTickets) ==
  IF totalQuantity(requests) > maxTickets THEN FALSE
  ELSE hasAdultTicket(requests) /\ ~hasChildOrInfantWithoutAdult(requests)

RECURSIVE calculateTotalAmount(_, _)
calculateTotalAmount(requests, prices) ==
  IF requests = <<>> THEN 0
  ELSE calculateTotalAmount(SubSeq(requests, 1, Len(requests) - 1), prices)
         + prices[getTicketType(requests[Len(requests)])]
             * getNoOfTickets(requests[Len(requests)])

\* variant: the account check lets 0 through
IsInvalidAccountId_strict(a) == a < 0

\* accountId <= 0
IsInvalidAccountId(a) == a <= 0

\* positions of the call that lie inside the try block
TryCovers == {"makePayment", "reserveSeats"}

MakePaymentCall(a, amount) == [fn |-> "makePayment", accountId |-> a, arg |-> amount]
ReserveSeatsCall(a, seats) == [fn |-> "reserveSeats", accountId |-> a, arg |-> seats]

\* purchaseTickets(a, ticketTypeRequests) up to the makePayment call
purchaseTickets(a) ==
  /\ pc = "idle"
  /\ callsDone < MaxCalls
  /\ accountId' = a
  /\ lastNew' = NoAttempt
  /\ numSeatsToReserve' = 0
  /\ payOutcome' = "none"
  /\ resOutcome' = "none"
  /\ escaped' = FALSE
  /\ IF IsInvalidAccountId(a)
       THEN /\ pc' = "returned"
            /\ result' = 0
            /\ calls' = <<>>
            /\ totalAmount' = 0
       ELSE IF ~isValidPurchaseRequest(ticketTypeRequests, maxTicketsPerPurchase)
         THEN /\ pc' = "returned"
              /\ result' = 0
              /\ calls' = <<>>
              /\ totalAmount' = 0
         ELSE /\ totalAmount' = calculateTotalAmount(ticketTypeRequests, ticketPrices)
              /\ calls' = <<MakePaymentCall(a, totalAmount')>>
              /\ pc' = "makePayment"
              /\ result' = 0
  /\ UNCHANGED <<config, ticketTypeRequests, callsDone>>

\* variant: seats are reserved whatever makePayment returned
makePayment_returns_alwaysReserves(b) ==
  /\ pc = "makePayment"
  /\ payOutcome' = (IF b THEN "true" ELSE "false")
  /\ numSeatsToReserve' = calculateNumSeatsToReserve(ticketTypeRequests)
  /\ calls' = Append(calls, ReserveSeatsCall(accountId, numSeatsToReserve'))
  /\ pc' = "reserveSeats"
  /\ UNCHANGED <<config, ticketTypeRequests, lastNew, accountId, totalAmount,
                 resOutcome, result, escaped, callsDone>>

\* makePayment returns b; on success the seat count is computed and
\* reserveSeats is called
makePayment_returns(b) ==
  /\ pc = "makePayment"
  /\ IF b
       THEN /\ payOutcome' = "true"
            /\ numSeatsToReserve' = calculateNumSeatsToReserve(ticketTypeRequests)
            /\ calls' = Append(calls, ReserveSeatsCall(accountId, numSeatsToReserve'))
            /\ pc' = "reserveSeats"
            /\ UNCHANGED result
       ELSE /\ payOutcome' = "false"
            /\ pc' = "returned"
            /\ result' = numSeatsToReserve
            /\ UNCHANGED <<numSeatsToReserve, calls>>
  /\ UNCHANGED <<config, ticketTypeRequests, lastNew, accountId, totalAmount,
                 resOutcome, escaped, callsDone>>

\* an exception raised at the current position: caught when inside the try
\* block, and the function then returns numSeatsToReserve
Raise ==
  IF pc \in TryCovers
    THEN /\ escaped' = FALSE
         /\ result' = numSeatsToReserve
    ELSE /\ escaped' = TRUE
         /\ UNCHANGED result

makePayment_throws ==
  /\ pc = "makePayment"
  /\ payOutcome' = "threw"
  /\ Raise
  /\ pc' = "returned"
  /\ UNCHANGED <<config, ticketTypeRequests, lastNew, accountId, totalAmount,
                 numSeatsToReserve, calls, resOutcome, callsDone>>

\* variant: a completed purchase is deducted from the cap
reserveSeats_returns_consumesCap ==
  /\ pc = "reserveSeats"
  /\ resOutcome' = "returned"
  /\ result' = numSeatsToReserve
  /\ pc' = "returned"
  /\ maxTicketsPerPurchase' = maxTicketsPerPurchase - numSeatsToReserve
  /\ UNCHANGED <<ticketPrices, ticketTypeRequests, lastNew, accountId, totalAmount,
                 numSeatsToReserve, calls, payOutcome, escaped, callsDone>>

reserveSeats_returns ==
  /\ pc = "reserveSeats"
  /\ resOutcome' = "returned"
  /\ result' = numSeatsToReserve
  /\ pc' = "returned"
  /\ UNCHANGED <<config, ticketTypeRequests, lastNew, accountId, totalAmount,
                 numSeatsToReserve, calls, payOutcome, escaped, callsDone>>

reserveSeats_throws ==
  /\ pc = "reserveSeats"
  /\ resOutcome' = "threw"
  /\ Raise
  /\ pc' = "returned"
  /\ UNCHANGED <<config, ticketTypeRequests, lastNew, accountId, totalAmount,
                 numSeatsToReserve, calls, payOutcome, callsDone>>

\* the caller takes the result and drops the request array
Return ==
  /\ pc = "returned"
  /\ pc' = "idle"
  /\ callsDone' = callsDone + 1
  /\ ticketTypeRequests' = <<>>
  /\ accountId' = 0
  /\ totalAmount' = 0
  /\ numSeatsToReserve' = 0
  /\ calls' = <<>>
  /\ payOutcome' = "none"
  /\ resOutcome' = "none"
  /\ result' = 0
  /\ escaped' = FALSE
  /\ UNCHANGED <<config, lastNew>>

Init ==
  /\ ticketPrices = InitialTicketPrices
  /\ maxTicketsPerPurchase = InitialMaxTicketsPerPurchase
  /\ ticketTypeRequests = <<>>
  /\ lastNew = NoAttempt
  /\ pc = "idle"
  /\ accountId = 0
  /\ totalAmount = 0
  /\ numSeatsToReserve = 0
  /\ calls = <<>>
  /\ payOutcome = "none"
  /\ resOutcome = "none"
  /\ result = 0
  /\ escaped = FALSE
  /\ callsDone = 0

Next ==
  \/ \E type \in TypeInputs, noOfTickets \in RawValues :
       TicketTypeRequest(type, noOfTickets)
  \/ \E a \in AccountIds : purchaseTickets(a)
  \/ \E b \in BOOLEAN : makePayment_returns(b)
  \/ makePayment_throws
  \/ reserveSeats_returns
  \/ reserveSeats_throws
  \/ Return

Spec == Init /\ [][Next]_vars

TypeOK ==
  /\ pc \in {"idle", "makePayment", "reserveSeats", "returned"}
  /\ Len(ticketTypeRequests) <= MaxLen
  /\ \A i \in 1..Len(ticketTypeRequests) :
       ticketTypeRequests[i].type \in Type /\ ticketTypeRequests[i].noOfTickets \in Int
  /\ accountId \in Int /\ result \in Int /\ escaped \in BOOLEAN

\* ------------------------------------------------------------ properties
\* Quantities of the specification, written over the request array
\* independently of the service's helpers.
RECURSIVE SumOfQuantities(_)
SumOfQuantities(requests) ==
  IF requests = <<>> THEN 0
  ELSE Head(requests).noOfTickets + SumOfQuantities(Tail(requests))

RECURSIVE SumOfSeats(_)
SumOfSeats(requests) ==
  IF requests = <<>> THEN 0
  ELSE (IF Head(requests).type = "INFANT" THEN 0 ELSE Head(requests).noOfTickets)
         + SumOfSeats(Tail(requests))

UnitPrice(type) ==
  CASE type = "INFANT" -> 0
    [] type = "CHILD" -> 10
    [] type = "ADULT" -> 20

RECURSIVE SumOfPrices(_)
SumOfPrices(requests) ==
  IF requests = <<>> THEN 0
  ELSE UnitPrice(Head(requests).type) * Head(requests).noOfTickets
         + SumOfPrices(Tail(requests))

HasEntryOfType(requests, types) ==
  \E i \in 1..Len(requests) : requests[i].type \in types

HasPayingAdult(requests) ==
  \E i \in 1..Len(requests) :
    requests[i].type = "ADULT" /\ requests[i].noOfTickets > 0

ReserveCallIndexes == {i \in 1..Len(calls) : calls[i].fn = "reserveSeats"}
PaymentCallIndexes == {i \in 1..Len(calls) : calls[i].fn = "makePayment"}

\* C1: with accountId > 0 and a request list that passed validation, when
\* makePayment or reserveSeats raises, nothing propagates to the caller and
\* purchaseTickets returns 0 (also when makePayment succeeded and
\* reserveSeats then raised).
C1_CollaboratorFailureReturnsZero ==
  (pc = "returned" /\ accountId > 0
     /\ (payOutcome = "threw" \/ resOutcome = "threw"))
    => (~escaped /\ result = 0)

\* C2: within one purchaseTickets call reserveSeats is invoked at most once
\* and only after a makePayment call of the same call that reported success;
\* when makePayment returns false, reserveSeats is never invoked and the
\* call returns 0.
C2_ReserveOnlyAfterSuccessfulPayment ==
  /\ Cardinality(ReserveCallIndexes) <= 1
  /\ \A i \in ReserveCallIndexes :
       /\ payOutcome = "true"
       /\ \E j \in PaymentCallIndexes : j < i
  /\ payOutcome = "false" =>
       (ReserveCallIndexes = {} /\ pc = "returned" /\ result = 0)

C2_Witness ==
  /\ pc = "returned"
  /\ payOutcome = "true"
  /\ resOutcome = "returned"
  /\ ReserveCallIndexes = {2}

\* C3: a request list with a CHILD or INFANT entry and no ADULT entry of
\* quantity > 0 makes purchaseTickets return 0.
C3_ChildOrInfantNeedsPayingAdult ==
  (pc = "returned"
     /\ HasEntryOfType(ticketTypeRequests, {"CHILD", "INFANT"})
     /\ ~HasPayingAdult(ticketTypeRequests))
    => result = 0

\* C4: when the quantities of all entries, INFANT included, sum to more than
\* 20, purchaseTickets returns 0 and calls neither collaborator.
C4_OverCapRejected ==
  (pc # "idle" /\ SumOfQuantities(ticketTypeRequests) > 20)
    => (pc = "returned" /\ result = 0 /\ calls = <<>>)

C4_Witness ==
  /\ pc = "returned"
  /\ accountId > 0
  /\ SumOfQuantities(ticketTypeRequests) > 20
  /\ SumOfSeats(ticketTypeRequests) <= 20
  /\ HasPayingAdult(ticketTypeRequests)
  /\ result = 0

\* C5: with accountId <= 0, whatever the request list, purchaseTickets
\* returns 0 and calls neither collaborator.
C5_BadAccountRejected ==
  (pc # "idle" /\ accountId <= 0)
    => (pc = "returned" /\ result = 0 /\ calls = <<>>)

C5_Witness ==
  /\ pc = "returned"
  /\ accountId = 0
  /\ ticketTypeRequests = <<[type |-> "ADULT", noOfTickets |-> 1]>>
  /\ result = 0

\* C6: with accountId > 0 and an accepted request list, when makePayment
\* reports success, the collaborator calls are exactly makePayment(accountId,
\* sum of unit price * quantity) followed by reserveSeats(accountId, sum of
\* the non-INFANT quantities), and purchaseTickets returns that seat count.
C6_PaymentAndReservationArguments ==
  payOutcome = "true" =>
    /\ accountId > 0
    /\ calls = <<[fn |-> "makePayment", accountId |-> accountId,
                  arg |-> SumOfPrices(ticketTypeRequests)],
                 [fn |-> "reserveSeats", accountId |-> accountId,
                  arg |-> SumOfSeats(ticketTypeRequests)]>>
    /\ pc = "returned" => result = SumOfSeats(ticketTypeRequests)

C6_Witness ==
  /\ pc = "returned"
  /\ payOutcome = "true"
  /\ resOutcome = "returned"
  /\ ticketTypeRequests = <<[type |-> "ADULT", noOfTickets |-> 1],
                            [type |-> "INFANT", noOfTickets |-> 1]>>
  /\ result = 1

\* C7: constructing a ticket request fails whenever the type is not ADULT,
\* CHILD or INFANT, or the quantity is not a non-negative whole number; when
\* it succeeds the accessors return the type and quantity given.
IsNonNegativeWholeNumber(v) ==
  v.t = "number" /\ v.den # 0 /\ v.num % v.den = 0 /\ v.num >= 0

C7_ConstructorRejectsBadArguments ==
  /\ (lastNew.outcome # "none"
        /\ (lastNew.type \notin {"ADULT", "CHILD", "INFANT"}
              \/ ~IsNonNegativeWholeNumber(lastNew.raw)))
       => lastNew.outcome = "TypeError"
  /\ lastNew.outcome = "ok" =>
       /\ ticketTypeRequests # <<>>
       /\ getTicketType(ticketTypeRequests[Len(ticketTypeRequests)]) = lastNew.type
       /\ lastNew.raw.t = "number"
       /\ getNoOfTickets(ticketTypeRequests[Len(ticketTypeRequests)]) * lastNew.raw.den
            = lastNew.raw.num

\* C8: a request list with zero total tickets (the empty list included) is
\* invalid: with accountId > 0, purchaseTickets returns 0 and calls neither
\* collaborator.
C8_ZeroTicketsRejected ==
  (pc # "idle" /\ accountId > 0 /\ SumOfQuantities(ticketTypeRequests) = 0)
    => (pc = "returned" /\ result = 0 /\ calls = <<>>)

\* C9: a non-empty list of ADULT entries only, with total quantity at most 20
\* (20 included), is valid: with accountId > 0 makePayment is invoked, and
\* when it reports success purchaseTickets returns the total quantity.
C9_AdultOnlyWithinCapAccepted ==
  (pc # "idle" /\ accountId > 0
     /\ ticketTypeRequests # <<>>
     /\ ~HasEntryOfType(ticketTypeRequests, {"CHILD", "INFANT"})
     /\ SumOfQuantities(ticketTypeRequests) <= 20)
    => /\ PaymentCallIndexes # {}
       /\ calls[1].fn = "makePayment"
       /\ (pc = "returned" /\ payOutcome = "true")
            => result = SumOfQuantities(ticketTypeRequests)

C9_Witness ==
  /\ pc = "returned"
  /\ payOutcome = "true"
  /\ ticketTypeRequests # <<>>
  /\ ~HasEntryOfType(ticketTypeRequests, {"CHILD", "INFANT"})
  /\ SumOfQuantities(ticketTypeRequests) = 20
  /\ result = 20

\* C10: no step of a purchaseTickets call, on any outcome path, changes the
\* service's price table or its maximum-tickets cap.
C10_ConfigurationNeverChanges ==
  [][/\ ticketPrices' = ticketPrices
     /\ maxTicketsPerPurchase' = maxTicketsPerPurchase]_vars

C10_Witness ==
  /\ callsDone >= 1
  /\ pc = "returned"
  /\ resOutcome = "returned"
  /\ result > 0
  /\ ticketPrices = [INFANT |-> 0, CHILD |-> 10, ADULT |-> 20]
  /\ maxTicketsPerPurchase = 20
====
